---------------------------- MODULE Spec2Model ----------------------------
(***************************************************************************)
(* Counting approximate-membership filters of src/bloom/counting_bloom.h:  *)
(* the SuccinctCountingBloomFilter (4-bit overflow lanes) and the          *)
(* SuccinctCountingBlockedBloomFilter (8-bit overflow lanes).              *)
(*                                                                         *)
(* A uint64_t (and a uint32_t) is the set of the positions of its 1 bits,  *)
(* so that every word keeps its full width: & is \cap, | is \cup, a shift  *)
(* moves the positions and drops those that leave 0..63, and += / -= are   *)
(* carry / borrow chains that fall off bit 63.                             *)
(***************************************************************************)
EXTENDS Integers, FiniteSets, Sequences, TLC

\* ------------------------------------------------------------ machine words

W64 == 0 .. 63

W32 == 0 .. 31

Pow2(e) == 2 ^ e

\* the word holding the number n (n < 2^31)
FromNat(n) == { i \in 0 .. 30 : (n \div Pow2(i)) % 2 = 1 }

\* the number held by the bits s .. s+7 of a word
Octet(x, s) ==
    (IF s \in x THEN 1 ELSE 0) + (IF s + 1 \in x THEN 2 ELSE 0)
    + (IF s + 2 \in x THEN 4 ELSE 0) + (IF s + 3 \in x THEN 8 ELSE 0)
    + (IF s + 4 \in x THEN 16 ELSE 0) + (IF s + 5 \in x THEN 32 ELSE 0)
    + (IF s + 6 \in x THEN 64 ELSE 0) + (IF s + 7 \in x THEN 128 ELSE 0)

\* the number a word holds (all its bits below 31)
ToNat(x) ==
    Octet(x, 0) + 256 * Octet(x, 8) + 65536 * Octet(x, 16)
    + 16777216 * Octet(x \ {31}, 24)

\* x + (1 << p) modulo 2^64: the carry runs up from p to the first 0 bit
AddBit(x, p) ==
    LET zeros == (p .. 63) \ x
    IN  IF zeros = {} THEN x \ (p .. 63)
        ELSE LET q == CHOOSE z \in zeros : \A y \in zeros : z <= y
             IN  (x \ (p .. q - 1)) \cup {q}

\* x - (1 << p) modulo 2^64: the borrow runs up from p to the first 1 bit
SubBit(x, p) ==
    LET ones == x \cap (p .. 63)
    IN  IF ones = {} THEN x \cup (p .. 63)
        ELSE LET q == CHOOSE z \in ones : \A y \in ones : z <= y
             IN  (x \ {q}) \cup (p .. q - 1)

\* x << s and x >> s for a count 0 <= s < 64
Shl(x, s) == { i + s : i \in x } \cap W64

Shr(x, s) == { i - s : i \in x } \cap W64

\* the 16 bits 16 * i .. 16 * i + 15 of a word, as a number
Limb(x, i) == Octet(x, 16 * i) + 256 * Octet(x, 16 * i + 8)

\* the sum modulo 2^64 of two words given by their four 16-bit limbs, the carry
\* running from limb to limb
AddLimbs(a0, a1, a2, a3, b0, b1, b2, b3) ==
    LET s0 == a0 + b0
        s1 == a1 + b1 + s0 \div 65536
        s2 == a2 + b2 + s1 \div 65536
        s3 == a3 + b3 + s2 \div 65536
    IN  FromNat(s0 % 65536) \cup Shl(FromNat(s1 % 65536), 16)
            \cup Shl(FromNat(s2 % 65536), 32) \cup Shl(FromNat(s3 % 65536), 48)

\* x + y modulo 2^64
Add64(x, y) ==
    IF x = {} THEN y
    ELSE IF y = {} THEN x
    ELSE AddLimbs(Limb(x, 0), Limb(x, 1), Limb(x, 2), Limb(x, 3),
                  Limb(y, 0), Limb(y, 1), Limb(y, 2), Limb(y, 3))

\* x - y modulo 2^64: x plus the two's complement of y
Sub64(x, y) == IF y = {} THEN x ELSE Add64(x, AddBit(W64 \ y, 0))

\* (uint32_t)(a + b)
Add32(a, b) == Add64(a, b) \cap W32

\* A shift whose count is not in 0..63 is undefined in C++.  The builds give
\* one of two results: "wrap" takes the count modulo 64 (the shift
\* instruction of x86-64 and AArch64), "zero" shifts every bit out (the
\* vector shifts a compiler may use for the loops).
ShiftModes == {"wrap", "zero"}

ShlUB(mode, x, s) == IF s \in W64 THEN Shl(x, s)
                     ELSE IF mode = "wrap" THEN Shl(x, s % 64) ELSE {}

ShrUB(mode, x, s) == IF s \in W64 THEN Shr(x, s)
                     ELSE IF mode = "wrap" THEN Shr(x, s % 64) ELSE {}

\* n * w modulo 2^64 for a small number n: the sum of w << i over the bits i of n
Mul64(n, w) == LET RECURSIVE Sum(_, _)
                   Sum(acc, bits) ==
                       IF bits = {} THEN acc
                       ELSE LET i == CHOOSE j \in bits : TRUE
                            IN  Sum(Add64(acc, Shl(w, i)), bits \ {i})
               IN  Sum({}, FromNat(n))

\* -------------------------------------------------------- bit primitives

bitCount64(x) == Cardinality(x)

\* the portable scan: the index of the n-th set bit, -1 when there is none
select64(x, n) ==
    IF n >= 0 /\ Cardinality(x) > n
    THEN CHOOSE i \in x : Cardinality({ j \in x : j < i }) = n
    ELSE -1

\* __builtin_clzl; undefined at 0, where the lzcnt instruction gives 64
numberOfLeadingZeros64(x) ==
    IF x = {} THEN 64
    ELSE 63 - (CHOOSE i \in x : \A j \in x : j <= i)

\* the high 32 bits of the product of n (n < 2^22) and the 32-bit value with the
\* bytes h0 (lowest) .. h3, the carry running from byte to byte
ReduceBytes(h0, h1, h2, h3, n) ==
    LET t0 == h0 * n
        t1 == h1 * n + t0 \div 256
        t2 == h2 * n + t1 \div 256
        t3 == h3 * n + t2 \div 256
    IN  t3 \div 256

\* (uint32_t)(((uint64_t)hash * n) >> 32)
reduce(hash, n) ==
    ReduceBytes(Octet(hash, 0), Octet(hash, 8), Octet(hash, 16), Octet(hash, 24), n)


\* -------------------------------------------- SuccinctCountingBloomFilter

\* template parameter of the filters, and the number of probes derived from it
bits_per_item == 10

k == (bits_per_item * 693147 + 500000) \div 1000000

\* words of one overflow slot, and the headroom per 100 groups
SlotWords == 4

Headroom == 12

\* 0xffffffffffffffffULL >> (63 - bit)
LowMask(bit) == Shr(W64, 63 - bit)

\* (1ULL << s) - 1
MaskBelow(ub, s) == SubBit(ShlUB(ub, {0}, s), 0)

\* data and counts are arrays of arrayLength words, zeroed by the constructor;
\* they are kept as the function from the indexes of the words that are not 0.
Zeroed == << >>

\* arr[i]
Word(arr, i) == IF i \in DOMAIN arr THEN arr[i] ELSE {}

\* arr after arr[i] = w
Store(arr, i, w) ==
    IF w = {} THEN [ j \in DOMAIN arr \ {i} |-> arr[j] ]
    ELSE [ j \in DOMAIN arr \cup {i} |-> IF j = i THEN w ELSE arr[j] ]

\* the constructor: every array zeroed, the free list threaded through the
\* first word of every slot.  ub is the build's result of an oversized shift.
NewSuccinct(n, ub) ==
    LET bitCount == n * bits_per_item
        arrayLength == (bitCount + 63) \div 64
        overflowLength == 100 + (arrayLength \div 100) * Headroom
    IN  [ ub |-> ub,
          arrayLength |-> arrayLength,
          overflowLength |-> overflowLength,
          data |-> Zeroed,
          counts |-> Zeroed,
          overflow |-> [ i \in 0 .. overflowLength - 1 |->
                           IF i % SlotWords = 0 THEN FromNat(i + SlotWords) ELSE {} ],
          nextFreeOverflow |-> 0 ]

ReadCount(F, group, bit) ==
    LET m == Word(F.data, group)
        c == Word(F.counts, group)
    IN  IF bit \notin m THEN 0
        ELSE IF 63 \in c
        THEN LET index == ToNat(c \cap (0 .. 27))
                 n == Shr(F.overflow[index + bit \div 16], 4 * (bit % 16))
             IN  ToNat(n \cap (0 .. 3))
        ELSE LET bitsBefore == bitCount64(m \cap LowMask(bit))
                 bitPos == select64(c, bitsBefore - 1)
                 y == Shl(ShlUB(F.ub, c, 63 - bitPos), 1)
                          \cup ShlUB(F.ub, {0}, 63 - bitPos)
             IN  numberOfLeadingZeros64(y) + 1

\* the rounds i = lo .. hi of the loop "convert to a pointer" on one word of the
\* slot: overflow[index + i / 16] += n * (1ULL << (i * 4)), with n the count of
\* position i.  The rounds are split in halves, the first half done first.
RECURSIVE SlotLanes(_, _, _, _, _)
SlotLanes(F, group, word, lo, hi) ==
    IF word \subseteq W64 /\ lo <= hi
    THEN IF lo = hi
         THEN Add64(word, Mul64(ReadCount(F, group, lo), ShlUB(F.ub, {0}, lo * 4)))
         ELSE SlotLanes(F, group,
                        SlotLanes(F, group, word, lo, (lo + hi) \div 2),
                        (lo + hi) \div 2 + 1, hi)
    ELSE word

\* word w of the slot after the loop: it starts at 0 and receives the counts of
\* the 16 positions 16 * w .. 16 * w + 15
SlotWord(F, group, w) == SlotLanes(F, group, {}, 16 * w, 16 * w + 15)

\* the pool after the slot at index is zeroed and filled from the inline counters
Deposit(F, ov, group, index) ==
    [ i \in DOMAIN ov |->
        IF i \in index .. index + 3 THEN SlotWord(F, group, i - index) ELSE ov[i] ]

\* a faulty splice, which sets the presence bit and leaves the counters alone
IncrementInlineNoSplice(F, group, bit) ==
    [F EXCEPT !.data = Store(@, group, Word(@, group) \cup {bit})]

\* the inline splice of Increment
IncrementInline(F, group, bit) ==
    LET m == Word(F.data, group)
        c == Word(F.counts, group)
        bitsBefore == bitCount64(m \cap LowMask(bit))
        before == select64(Shl(c, 1) \cup {0}, bitsBefore)
        d == IF bit \in m THEN 1 ELSE 0
        insertAt == before - d
        mask == MaskBelow(F.ub, insertAt)
        left == c \ mask
        right == c \cap mask
        c2 == Shl(left, 1)
                \cup (IF d = 0 THEN ShlUB(F.ub, {0}, insertAt) ELSE {})
                \cup right
    IN  [F EXCEPT !.data = Store(@, group, m \cup {bit}),
                  !.counts = Store(@, group, c2)]

\* a faulty exhaustion branch, which returns without setting the presence bit
PoolExhaustedNoBit(F, group, bit) == F

\* the branch "overflow too small": the presence bit is set, nothing else
PoolExhausted(F, group, bit) == [F EXCEPT !.data = Store(@, group, Word(@, group) \cup {bit})]

Increment(F, group, bit) ==
    LET c == Word(F.counts, group)
    IN  IF c \cap {62, 63} # {}
        THEN IF 63 \notin c
             THEN LET index == F.nextFreeOverflow
                  IN  IF index >= F.overflowLength
                      THEN PoolExhausted(F, group, bit)
                      ELSE LET filled == Deposit(F, F.overflow, group, index)
                               w == index + bit \div 16
                           IN  [F EXCEPT
                                  !.nextFreeOverflow = ToNat(F.overflow[index]),
                                  !.counts = Store(@, group,
                                      {63} \cup Shl(FromNat(64), 32) \cup FromNat(index)),
                                  !.overflow = [filled EXCEPT ![w] =
                                      Add64(@, ShlUB(F.ub, {0}, bit * 4))],
                                  !.data = Store(@, group, Word(@, group) \cup {bit})]
             ELSE LET index == ToNat(c \cap (0 .. 27))
                      w == index + bit \div 16
                  IN  [F EXCEPT
                         !.counts = Store(@, group, AddBit(c, 32)),
                         !.overflow[w] = Add64(@, ShlUB(F.ub, {0}, bit * 4)),
                         !.data = Store(@, group, Word(@, group) \cup {bit})]
        ELSE IncrementInline(F, group, bit)

\* one round of the loop "convert back to an inline entry":
\* if (cj > 0) c2 = ((c2 << 1) | 1) << (cj - 1)
Lane(ub, c2, cj) ==
    IF c2 = {} THEN (IF cj > 0 THEN ShlUB(ub, {0}, cj - 1) ELSE {})
    ELSE IF cj > 0 THEN ShlUB(ub, Shl(c2, 1) \cup {0}, cj - 1)
    ELSE c2

\* the rounds j = hi down to lo of the loop "convert back to an inline entry",
\* with cj = (overflow[index + j / 16] >> (4 * j)) & 0xf.  The rounds are split
\* in halves, the upper half done first.
RECURSIVE RebuildLanes(_, _, _, _, _)
RebuildLanes(F, index, c2, hi, lo) ==
    IF c2 \subseteq W64 /\ lo <= hi
    THEN IF lo = hi
         THEN Lane(F.ub, c2,
                   ToNat(ShrUB(F.ub, F.overflow[index + lo \div 16], 4 * lo)
                             \cap (0 .. 3)))
         ELSE RebuildLanes(F, index,
                           RebuildLanes(F, index, c2, hi, (lo + hi) \div 2 + 1),
                           (lo + hi) \div 2, lo)
    ELSE c2

\* the whole loop, j from 63 down to 0, starting from c2 = 0
Rebuild(F, index) == RebuildLanes(F, index, {}, 63, 0)

\* the inline splice of Decrement
DecrementInline(F, group, bit) ==
    LET m == Word(F.data, group)
        c == Word(F.counts, group)
        bitsBefore == bitCount64(m \cap LowMask(bit))
        before == select64(Shl(c, 1) \cup {0}, bitsBefore) - 1
        removeAt == IF before - 1 > 0 THEN before - 1 ELSE 0
        mask == MaskBelow(F.ub, removeAt)
        left == Shr(c, 1) \ mask
        right == c \cap mask
        removed == removeAt \in c
    IN  [F EXCEPT !.counts = Store(@, group, left \cup right),
                  !.data = Store(@, group, IF removed THEN m \ {bit} ELSE m)]

\* a faulty Decrement, which compares the total after the decrement with 64
DecrementEager(F, group, bit) ==
    LET c == Word(F.counts, group)
    IN  IF 63 \in c
        THEN LET index == ToNat(c \cap (0 .. 27))
                 count == ToNat(Shr(SubBit(c, 32), 32) \cap (0 .. 27))
                 w == index + bit \div 16
                 n == F.overflow[w]
                 old == Shr(n, 4 * (bit % 16)) \cap (0 .. 3)
                 F1 == [F EXCEPT
                          !.counts = Store(@, group, SubBit(c, 32)),
                          !.overflow[w] = Sub64(n, ShlUB(F.ub, {0}, bit * 4)),
                          !.data = Store(@, group, IF old = {0} THEN Word(@, group) \ {bit}
                                                   ELSE Word(@, group))]
             IN  IF count < 64
                 THEN [F1 EXCEPT
                         !.counts = Store(@, group, Rebuild(F1, index)),
                         !.overflow[index] = FromNat(F.nextFreeOverflow),
                         !.nextFreeOverflow = index]
                 ELSE F1
        ELSE DecrementInline(F, group, bit)

Decrement(F, group, bit) ==
    LET c == Word(F.counts, group)
    IN  IF 63 \in c
        THEN LET index == ToNat(c \cap (0 .. 27))
                 count == ToNat(Shr(c, 32) \cap (0 .. 27))
                 w == index + bit \div 16
                 n == F.overflow[w]
                 old == Shr(n, 4 * (bit % 16)) \cap (0 .. 3)
                 F1 == [F EXCEPT
                          !.counts = Store(@, group, SubBit(c, 32)),
                          !.overflow[w] = Sub64(n, ShlUB(F.ub, {0}, bit * 4)),
                          !.data = Store(@, group, IF old = {0} THEN Word(@, group) \ {bit}
                                                   ELSE Word(@, group))]
             IN  IF count < 64
                 THEN [F1 EXCEPT
                         !.counts = Store(@, group, Rebuild(F1, index)),
                         !.overflow[index] = FromNat(F.nextFreeOverflow),
                         !.nextFreeOverflow = index]
                 ELSE F1
        ELSE DecrementInline(F, group, bit)

\* -------------------------------------- SuccinctCountingBlockedBloomFilter

BlockedSlotWords == 8

BlockedHeadroom == 36

NewBlocked(capacity, ub) ==
    LET bucketCount == (capacity * bits_per_item) \div 512
        arrayLength == bucketCount * 8
        overflowLength == 100 + (arrayLength \div 100) * BlockedHeadroom
    IN  [ ub |-> ub,
          bucketCount |-> bucketCount,
          arrayLength |-> arrayLength,
          overflowLength |-> overflowLength,
          data |-> Zeroed,
          counts |-> Zeroed,
          overflow |-> [ i \in 0 .. overflowLength - 1 |->
                           IF i % BlockedSlotWords = 0
                           THEN FromNat(i + BlockedSlotWords) ELSE {} ],
          nextFreeOverflow |-> 0 ]

BlockedReadCount(F, group, bit) ==
    LET m == Word(F.data, group)
        c == Word(F.counts, group)
    IN  IF bit \notin m THEN 0
        ELSE IF 63 \in c
        THEN LET index == ToNat(c \cap (0 .. 27))
                 n == ShrUB(F.ub, F.overflow[index + bit \div 8], 8 * bit)
             IN  ToNat(n \cap (0 .. 7))
        ELSE LET bitsBefore == bitCount64(m \cap LowMask(bit))
                 bitPos == select64(c, bitsBefore - 1)
                 y == Shl(ShlUB(F.ub, c, 63 - bitPos), 1)
                          \cup ShlUB(F.ub, {0}, 63 - bitPos)
             IN  numberOfLeadingZeros64(y) + 1

\* the rounds i = lo .. hi of the loop "convert to a pointer" on one word:
\* overflow[index + i / 8] += n * (1ULL << (i * 8))
RECURSIVE BlockedSlotLanes(_, _, _, _, _)
BlockedSlotLanes(F, group, word, lo, hi) ==
    IF word \subseteq W64 /\ lo <= hi
    THEN IF lo = hi
         THEN Add64(word, Mul64(BlockedReadCount(F, group, lo),
                                ShlUB(F.ub, {0}, lo * 8)))
         ELSE BlockedSlotLanes(F, group,
                               BlockedSlotLanes(F, group, word, lo, (lo + hi) \div 2),
                               (lo + hi) \div 2 + 1, hi)
    ELSE word

BlockedSlotWord(F, group, w) == BlockedSlotLanes(F, group, {}, 8 * w, 8 * w + 7)

BlockedDeposit(F, ov, group, index) ==
    [ i \in DOMAIN ov |->
        IF i \in index .. index + 7 THEN BlockedSlotWord(F, group, i - index)
        ELSE ov[i] ]

BlockedIncrementInline(F, group, bit) ==
    LET m == Word(F.data, group)
        c == Word(F.counts, group)
        bitsBefore == bitCount64(m \cap LowMask(bit))
        before == select64(Shl(c, 1) \cup {0}, bitsBefore)
        d == IF bit \in m THEN 1 ELSE 0
        insertAt == before - d
        mask == MaskBelow(F.ub, insertAt)
        left == c \ mask
        right == c \cap mask
        c2 == Shl(left, 1)
                \cup (IF d = 0 THEN ShlUB(F.ub, {0}, insertAt) ELSE {})
                \cup right
    IN  [F EXCEPT !.data = Store(@, group, m \cup {bit}),
                  !.counts = Store(@, group, c2)]

\* a faulty exhaustion branch, which also clears the counters of the group
BlockedPoolExhaustedReset(F, group, bit) ==
    [F EXCEPT !.data = Store(@, group, Word(@, group) \cup {bit}),
              !.counts = Store(@, group, {})]

BlockedPoolExhausted(F, group, bit) == [F EXCEPT !.data = Store(@, group, Word(@, group) \cup {bit})]

BlockedIncrement(F, group, bit) ==
    LET c == Word(F.counts, group)
    IN  IF c \cap {62, 63} # {}
        THEN IF 63 \notin c
             THEN LET index == F.nextFreeOverflow
                  IN  IF index >= F.overflowLength
                      THEN BlockedPoolExhausted(F, group, bit)
                      ELSE LET filled == BlockedDeposit(F, F.overflow, group, index)
                               w == index + bit \div 8
                           IN  [F EXCEPT
                                  !.nextFreeOverflow = ToNat(F.overflow[index]),
                                  !.counts = Store(@, group,
                                      {63} \cup Shl(FromNat(64), 32) \cup FromNat(index)),
                                  !.overflow = [filled EXCEPT ![w] =
                                      Add64(@, ShlUB(F.ub, {0}, bit * 8))],
                                  !.data = Store(@, group, Word(@, group) \cup {bit})]
             ELSE LET index == ToNat(c \cap (0 .. 27))
                      w == index + bit \div 8
                  IN  [F EXCEPT
                         !.counts = Store(@, group, AddBit(c, 32)),
                         !.overflow[w] = Add64(@, ShlUB(F.ub, {0}, bit * 8)),
                         !.data = Store(@, group, Word(@, group) \cup {bit})]
        ELSE BlockedIncrementInline(F, group, bit)

\* the rounds j = hi down to lo of the loop "convert back to an inline entry",
\* with cj = (overflow[index + j / 8] >> (8 * j)) & 0xff
RECURSIVE BlockedRebuildLanes(_, _, _, _, _)
BlockedRebuildLanes(F, index, c2, hi, lo) ==
    IF c2 \subseteq W64 /\ lo <= hi
    THEN IF lo = hi
         THEN Lane(F.ub, c2,
                   ToNat(ShrUB(F.ub, F.overflow[index + lo \div 8], 8 * lo)
                             \cap (0 .. 7)))
         ELSE BlockedRebuildLanes(F, index,
                                  BlockedRebuildLanes(F, index, c2, hi,
                                                      (lo + hi) \div 2 + 1),
                                  (lo + hi) \div 2, lo)
    ELSE c2

BlockedRebuild(F, index) == BlockedRebuildLanes(F, index, {}, 63, 0)

BlockedDecrementInline(F, group, bit) ==
    LET m == Word(F.data, group)
        c == Word(F.counts, group)
        bitsBefore == bitCount64(m \cap LowMask(bit))
        before == select64(Shl(c, 1) \cup {0}, bitsBefore) - 1
        removeAt == IF before - 1 > 0 THEN before - 1 ELSE 0
        mask == MaskBelow(F.ub, removeAt)
        left == Shr(c, 1) \ mask
        right == c \cap mask
        removed == removeAt \in c
    IN  [F EXCEPT !.counts = Store(@, group, left \cup right),
                  !.data = Store(@, group, IF removed THEN m \ {bit} ELSE m)]

\* a faulty Decrement: the local copy is shifted by 8 * (bit & 0x3)
BlockedDecrementNarrow(F, group, bit) ==
    LET c == Word(F.counts, group)
    IN  IF 63 \in c
        THEN LET index == ToNat(c \cap (0 .. 27))
                 count == ToNat(Shr(c, 32) \cap (0 .. 27))
                 w == index + bit \div 8
                 n == F.overflow[w]
                 old == ShrUB(F.ub, n, 8 * (bit % 4)) \cap (0 .. 7)
                 F1 == [F EXCEPT
                          !.counts = Store(@, group, SubBit(c, 32)),
                          !.overflow[w] = Sub64(n, ShlUB(F.ub, {0}, bit * 8)),
                          !.data = Store(@, group, IF old = {0} THEN Word(@, group) \ {bit}
                                                   ELSE Word(@, group))]
             IN  IF count < 64
                 THEN [F1 EXCEPT
                         !.counts = Store(@, group, BlockedRebuild(F1, index)),
                         !.overflow[index] = FromNat(F.nextFreeOverflow),
                         !.nextFreeOverflow = index]
                 ELSE F1
        ELSE BlockedDecrementInline(F, group, bit)

BlockedDecrement(F, group, bit) ==
    LET c == Word(F.counts, group)
    IN  IF 63 \in c
        THEN LET index == ToNat(c \cap (0 .. 27))
                 count == ToNat(Shr(c, 32) \cap (0 .. 27))
                 w == index + bit \div 8
                 n == F.overflow[w]
                 old == ShrUB(F.ub, n, 8 * (bit % 16)) \cap (0 .. 7)
                 F1 == [F EXCEPT
                          !.counts = Store(@, group, SubBit(c, 32)),
                          !.overflow[w] = Sub64(n, ShlUB(F.ub, {0}, bit * 8)),
                          !.data = Store(@, group, IF old = {0} THEN Word(@, group) \ {bit}
                                                   ELSE Word(@, group))]
             IN  IF count < 64
                 THEN [F1 EXCEPT
                         !.counts = Store(@, group, BlockedRebuild(F1, index)),
                         !.overflow[index] = FromNat(F.nextFreeOverflow),
                         !.nextFreeOverflow = index]
                 ELSE F1
        ELSE BlockedDecrementInline(F, group, bit)

\* ---------------------------------------------------------------- probes

\* A key is given by the 64-bit value the hasher returns for it:
\* [hi |-> the high 32 bits, lo |-> the low 32 bits].

\* a & 63, as a number
Low6(a) == ToNat(a \cap (0 .. 5))

RECURSIVE Walk(_, _, _)
\* the values a takes in a loop of n rounds that ends with a += b
Walk(a, b, n) == IF n = 0 THEN << >> ELSE << a >> \o Walk(Add32(a, b), b, n - 1)

RECURSIVE ProbesAt(_, _)
\* the (group, bit) pair probed for each value of a
ProbesAt(F, as) ==
    IF as = << >> THEN << >>
    ELSE << << reduce(Head(as), F.arrayLength), Low6(Head(as)) >> >>
             \o ProbesAt(F, Tail(as))

\* the k (group, bit) pairs of Add, Remove and Contain, in the order of the loop
Probes(F, hash) == ProbesAt(F, Walk(hash.hi, hash.lo, k))

\* bits s .. s+2 and bits s+3 .. s+8 of a word, as numbers
Field(w, s) == ToNat(Shr(w, s) \cap (0 .. 2))

Bit6(w, s) == ToNat(Shr(w, s) \cap (0 .. 5))

RECURSIVE BlockedProbesAt(_, _)
\* the pairs of the loop "for (int i = 3; i < k; i++)", one for each value of a
BlockedProbesAt(bucket_start, as) ==
    IF as = << >> THEN << >>
    ELSE << << bucket_start + Field(Head(as), 0), Bit6(Head(as), 3) >> >>
             \o BlockedProbesAt(bucket_start, Tail(as))

\* faulty first probes, which forget the start of the bucket
BlockedFirstUnbased(bucket_start, a) ==
    << << Field(a, 0), Bit6(a, 3) >>,
       << Field(a, 9), Bit6(a, 12) >>,
       << Field(a, 18), Bit6(a, 21) >> >>

\* the three pairs taken from bit fields of the low half of the hash
BlockedFirst(bucket_start, a) ==
    << << bucket_start + Field(a, 0), Bit6(a, 3) >>,
       << bucket_start + Field(a, 9), Bit6(a, 12) >>,
       << bucket_start + Field(a, 18), Bit6(a, 21) >> >>

\* the probes of the blocked filter: three from bit fields of the low half,
\* the others by double hashing, all inside the bucket of the key
BlockedProbes(F, hash) ==
    BlockedFirst(reduce(hash.hi, F.bucketCount) * 8, hash.lo)
        \o BlockedProbesAt(reduce(hash.hi, F.bucketCount) * 8,
                           Tail(Walk(hash.lo, hash.hi, k - 2)))

\* Contain: Ok exactly when every probed bit of the presence plane is set
Contain(F, hash) ==
    \A i \in 1 .. k :
        LET p == Probes(F, hash)[i] IN p[2] \in Word(F.data, p[1])

BlockedContain(F, hash) ==
    \A i \in 1 .. k :
        LET p == BlockedProbes(F, hash)[i] IN p[2] \in Word(F.data, p[1])

\* ------------------------------------------------------------ the object

VARIABLES
    kind,       \* which class the object is: "succinct" or "blocked"
    filter,     \* its fields: data, counts, overflow, nextFreeOverflow, lengths
    realCount,  \* the VERIFY_COUNT shadow array (<<>> when not compiled in)
    pending,    \* the calls the running Add or Remove has still to make
    last,       \* the call that produced the state
    added,      \* how many times each key is in the multiset
    order,      \* "adds" while the multiset is built, "removes" afterwards
    keys,       \* the keys given: the multiset built, or the vector of AddAll
    bulk        \* the filter AddAll fills

vars == << kind, filter, realCount, pending, last, added, order, keys, bulk >>

Kinds == {"succinct", "blocked"}

\* the methods of the object, by class
Inc(K, F, group, bit) ==
    IF K = "succinct" THEN Increment(F, group, bit)
    ELSE BlockedIncrement(F, group, bit)

Dec(K, F, group, bit) ==
    IF K = "succinct" THEN Decrement(F, group, bit)
    ELSE BlockedDecrement(F, group, bit)

Read(K, F, group, bit) ==
    IF K = "succinct" THEN ReadCount(F, group, bit)
    ELSE BlockedReadCount(F, group, bit)

ProbesOf(K, F, hash) ==
    IF K = "succinct" THEN Probes(F, hash) ELSE BlockedProbes(F, hash)

Has(K, F, hash) ==
    IF K = "succinct" THEN Contain(F, hash) ELSE BlockedContain(F, hash)

New(K, ub, n) == IF K = "succinct" THEN NewSuccinct(n, ub) ELSE NewBlocked(n, ub)

\* the group must be promoted by the next Increment and the pool has no slot
Exhausted(F, group) ==
    /\ 62 \in Word(F.counts, group)
    /\ 63 \notin Word(F.counts, group)
    /\ F.nextFreeOverflow >= F.overflowLength

SlotWordsOf(K) == IF K = "succinct" THEN SlotWords ELSE BlockedSlotWords

\* the slot a call on the group uses: the one its header names, or the head of
\* the free list when the call promotes the group; -1 when it uses none
SlotUsed(F, group, op) ==
    LET c == Word(F.counts, group)
    IN  IF 63 \in c THEN ToNat(c \cap (0 .. 27))
        ELSE IF op = "Increment" /\ 62 \in c /\ F.nextFreeOverflow < F.overflowLength
        THEN F.nextFreeOverflow
        ELSE -1

\* the free list: the slots met by following overflow[] from nextFreeOverflow
\* until an index at or past overflowLength
RECURSIVE Follow(_, _, _)
Follow(F, head, n) ==
    IF n = 0 \/ head >= F.overflowLength THEN {}
    ELSE LET next == F.overflow[head]
         IN  {head} \cup (IF next \subseteq 0 .. 30
                          THEN Follow(F, ToNat(next), n - 1)
                          ELSE {})

FreeList(F) == Follow(F, F.nextFreeOverflow, F.overflowLength)

\* the slots of the pool, as the constructor threads them
PoolSlots(K, F) == { i \in 0 .. F.overflowLength - 1 : i % SlotWordsOf(K) = 0 }

\* the call indexes overflow[] past its end: its behaviour is undefined
OutOfBounds(K, F, group, op) ==
    SlotUsed(F, group, op) + SlotWordsOf(K) > F.overflowLength

\* the calls of Add(key) or Remove(key), in the order of the loop
RECURSIVE CallsAt(_, _)
CallsAt(p, op) ==
    IF p = << >> THEN << >>
    ELSE << [ op |-> op, group |-> Head(p)[1], bit |-> Head(p)[2] ] >>
             \o CallsAt(Tail(p), op)

Calls(K, F, hash, op) == CallsAt(ProbesOf(K, F, hash), op)

\* what is left of the object when a call has indexed overflow[] past its end
Undefined == [ undefined |-> TRUE ]

IsDefined(F) == "data" \in DOMAIN F

\* one call of the loop
Step(K, F, c) ==
    IF ~IsDefined(F) THEN F
    ELSE IF OutOfBounds(K, F, c.group, c.op) THEN Undefined
    ELSE IF c.op = "Increment" THEN Inc(K, F, c.group, c.bit)
    ELSE Dec(K, F, c.group, c.bit)

\* the loop: st[i] is the object after the first i calls
Run(K, F, calls) ==
    LET st[i \in 0 .. Len(calls)] ==
            IF i = 0 THEN F ELSE Step(K, st[i - 1], calls[i])
    IN  st[Len(calls)]

Add(F, hash) == Run("succinct", F, Calls("succinct", F, hash, "Increment"))

Remove(F, hash) == Run("succinct", F, Calls("succinct", F, hash, "Decrement"))

BlockedAdd(F, hash) == Run("blocked", F, Calls("blocked", F, hash, "Increment"))

BlockedRemove(F, hash) == Run("blocked", F, Calls("blocked", F, hash, "Decrement"))

AddOf(K, F, hash) == IF K = "succinct" THEN Add(F, hash) ELSE BlockedAdd(F, hash)

RemoveOf(K, F, hash) ==
    IF K = "succinct" THEN Remove(F, hash) ELSE BlockedRemove(F, hash)

\* ---- AddAll: the keys are sorted into radix blocks of groups, block by block
\* tmp is kept as one sequence for each block: the first tmpLen[block] entries of
\* the block's part of the array.  An entry is (index << 6) + (a & 63), which
\* fits its 32 bits for every arrayLength below 2^26.

blockShift == 14

blockLen == Pow2(blockShift)

\* the loop of AddBlock over the entries lo .. hi of a block, split in halves
\* (the nesting of the definition stays logarithmic in the length of the block)
RECURSIVE AddBlockRange(_, _, _, _)
AddBlockRange(F, entries, lo, hi) ==
    IF ~IsDefined(F) \/ lo > hi THEN F
    ELSE IF lo = hi
    THEN Step("succinct", F, [ op |-> "Increment",
                               group |-> entries[lo] \div 64,
                               bit |-> entries[lo] % 64 ])
    ELSE LET mid == (lo + hi) \div 2
         IN  AddBlockRange(AddBlockRange(F, entries, lo, mid), entries, mid + 1, hi)

\* a faulty AddBlock, which leaves out the last entry of the block
AddBlockShort(F, tmp, block, len) == AddBlockRange(F, tmp[block], 1, len - 1)

\* AddBlock: Increment(index >> 6, index & 63) for the first len entries
AddBlock(F, tmp, block, len) == AddBlockRange(F, tmp[block], 1, len)

\* the entries one key gives, in the order of the loop over j
RECURSIVE EntriesAt(_)
EntriesAt(p) ==
    IF p = << >> THEN << >>
    ELSE << Head(p)[1] * 64 + Head(p)[2] >> \o EntriesAt(Tail(p))

\* the entries of keys[start] .. keys[end - 1], key after key (start and end
\* count from 0, as in the code)
RECURSIVE Entries(_, _, _, _)
Entries(F, hashes, start, end) ==
    IF start >= end THEN << >>
    ELSE EntriesAt(Probes(F, hashes[start + 1])) \o Entries(F, hashes, start + 1, end)

\* one round of the inner loop: the entry goes to the end of its block, and a
\* block that is full is added and emptied
Buffer(S, entry) ==
    LET block == (entry \div 64) \div blockLen
        len == Len(S.tmp[block])
        tmp == [S.tmp EXCEPT ![block] = Append(@, entry)]
    IN  IF len + 1 = blockLen
        THEN [ F |-> AddBlock(S.F, tmp, block, len + 1),
               tmp |-> [tmp EXCEPT ![block] = << >>] ]
        ELSE [ F |-> S.F, tmp |-> tmp ]

\* the rounds lo .. hi of the two nested loops
RECURSIVE Scatter(_, _, _, _)
Scatter(S, entries, lo, hi) ==
    IF ~IsDefined(S.F) \/ lo > hi THEN S
    ELSE IF lo = hi THEN Buffer(S, entries[lo])
    ELSE LET mid == (lo + hi) \div 2
         IN  Scatter(Scatter(S, entries, lo, mid), entries, mid + 1, hi)

\* the last loop: every block, in ascending order, is added
RECURSIVE Flush(_, _, _, _)
Flush(F, tmp, block, blocks) ==
    IF block >= blocks THEN F
    ELSE Flush(AddBlock(F, tmp, block, Len(tmp[block])), tmp, block + 1, blocks)

Blocks(F) == 1 + F.arrayLength \div blockLen

\* tmp and the filter when the two nested loops are done
Scattered(F, hashes, start, end) ==
    LET entries == Entries(F, hashes, start, end)
    IN  Scatter([ F |-> F, tmp |-> [ block \in 0 .. Blocks(F) - 1 |-> << >> ] ],
                entries, 1, Len(entries))

\* a faulty AddAll, which adds the first block only
AddAllFirstBlock(F, hashes, start, end) ==
    LET S == Scattered(F, hashes, start, end)
    IN  Flush(S.F, S.tmp, 0, 1)

AddAll(F, hashes, start, end) ==
    LET S == Scattered(F, hashes, start, end)
    IN  Flush(S.F, S.tmp, 0, Blocks(F))

\* the VERIFY_COUNT shadow array after count is added to a position's byte
Shadow(rc, group, bit, count) ==
    IF << group, bit >> \in DOMAIN rc
    THEN [rc EXCEPT ![<< group, bit >>] = (@ + count) % 256]
    ELSE rc

\* the shadow array after the calls of one Add (count 1) or Remove (count 255)
ShadowAll(rc, calls, count) ==
    LET sh[i \in 0 .. Len(calls)] ==
            IF i = 0 THEN rc
            ELSE Shadow(sh[i - 1], calls[i].group, calls[i].bit, count)
    IN  sh[Len(calls)]

\* the object after a handler: F when every call of the handler was defined
Outcome(F, rc, op) ==
    IF IsDefined(F)
    THEN /\ filter' = F
         /\ realCount' = rc
         /\ last' = op
    ELSE /\ last' = [ op |-> "undefined" ]
         /\ UNCHANGED << filter, realCount >>

\* Add(key), from the hash of the key to the return
DoAdd(key, hash) ==
    /\ pending = << >>
    /\ last.op # "undefined"
    /\ Outcome(AddOf(kind, filter, hash),
               ShadowAll(realCount, Calls(kind, filter, hash, "Increment"), 1),
               [ op |-> "Add", key |-> key ])
    /\ added' = [added EXCEPT ![key] = @ + 1]
    /\ order' = order
    /\ UNCHANGED << kind, pending, keys, bulk >>

\* Remove(key) of a key that is in the multiset
DoRemove(key, hash) ==
    /\ pending = << >>
    /\ last.op # "undefined"
    /\ added[key] > 0
    /\ Outcome(RemoveOf(kind, filter, hash),
               ShadowAll(realCount, Calls(kind, filter, hash, "Decrement"), 255),
               [ op |-> "Remove", key |-> key ])
    /\ added' = [added EXCEPT ![key] = @ - 1]
    /\ order' = "removes"
    /\ keys' = IF order = "adds" THEN added ELSE keys
    /\ UNCHANGED << kind, pending, bulk >>

\* ------------------------------------------------ Spec: a multiset of three keys
\* The multiset is built by Add calls and then taken apart by Remove calls, in
\* any order of the keys.

\* the constructor's argument: 2 groups (succinct), 2 buckets (blocked)
Capacity(K) == IF K = "succinct" THEN 12 ELSE 103

\* a 32-bit value with bit 31 set
Top32(n) == {31} \cup FromNat(n)

\* Key A probes one position k times, key B probes k positions of the same
\* group (one of them A's), key C probes bit 0 away from A and B.
Keys == {"A", "B", "C"}

KeyHash(K, key) ==
    IF K = "succinct"
    THEN CASE key = "A" -> [ hi |-> FromNat(18), lo |-> {} ]
           [] key = "B" -> [ hi |-> FromNat(9), lo |-> FromNat(9) ]
           [] key = "C" -> [ hi |-> {}, lo |-> Top32(0) ]
    ELSE CASE key = "A" -> [ hi |-> {}, lo |-> FromNat(37822608) ]
           [] key = "B" -> [ hi |-> FromNat(216), lo |-> FromNat(56696904) ]
           [] key = "C" -> [ hi |-> Top32(0), lo |-> {} ]

\* the multiset never holds more keys than this
MaxSize == 10

RECURSIVE Total(_, _)
Total(f, S) == IF S = {} THEN 0
               ELSE LET x == CHOOSE y \in S : TRUE IN f[x] + Total(f, S \ {x})

Size == Total(added, Keys)

\* the positions the keys probe: the shadow array is kept for these (every
\* other byte of realCount stays 0)
Tracked(K, F) ==
    { ProbesOf(K, F, KeyHash(K, key))[i] : key \in Keys, i \in 1 .. k }

RealCount(group, bit) ==
    IF << group, bit >> \in DOMAIN realCount THEN realCount[<< group, bit >>] ELSE 0

Init ==
    /\ kind \in Kinds
    /\ \E ub \in ShiftModes : filter = New(kind, ub, Capacity(kind))
    /\ realCount = [ p \in Tracked(kind, filter) |-> 0 ]
    /\ pending = << >>
    /\ last = [ op |-> "new" ]
    /\ added = [ key \in Keys |-> 0 ]
    /\ order = "adds"
    /\ keys = << >>
    /\ bulk = << >>

Next ==
    \/ \E key \in Keys : /\ order = "adds"
                          /\ Size < MaxSize
                          /\ DoAdd(key, KeyHash(kind, key))
    \/ \E key \in Keys : DoRemove(key, KeyHash(kind, key))

Spec == Init /\ [][Next]_vars

\* ------------------------------------------- SpecExhaust: the pool runs out
\* One key per group, each probing k bits of its group.  The keys are added
\* group after group, call by call, until every slot of the pool is taken and
\* one more group needs a slot; then a second key of that group is added and the
\* first and the last key are removed, in any order.

\* Add(key): the hash is taken and the loop over the k probes starts
BeginAdd(key, hash) ==
    /\ pending = << >>
    /\ last.op # "undefined"
    /\ pending' = Calls(kind, filter, hash, "Increment")
    /\ added' = [added EXCEPT ![key] = @ + 1]
    /\ last' = [ op |-> "Add", key |-> key ]
    /\ UNCHANGED << kind, filter, realCount, keys, bulk >>

\* Remove(key) of a key that is in the multiset
BeginRemove(key, hash) ==
    /\ pending = << >>
    /\ last.op # "undefined"
    /\ added[key] > 0
    /\ pending' = Calls(kind, filter, hash, "Decrement")
    /\ added' = [added EXCEPT ![key] = @ - 1]
    /\ last' = [ op |-> "Remove", key |-> key ]
    /\ UNCHANGED << kind, filter, realCount, keys, bulk >>

\* the next Increment(group, bit) of the running Add
IncrementCall ==
    /\ pending # << >>
    /\ Head(pending).op = "Increment"
    /\ Outcome(Step(kind, filter, Head(pending)),
               Shadow(realCount, Head(pending).group, Head(pending).bit, 1),
               [ op |-> "Increment", key |-> last.key,
                 group |-> Head(pending).group, bit |-> Head(pending).bit,
                 exhausted |-> Exhausted(filter, Head(pending).group) ])
    /\ pending' = Tail(pending)
    /\ UNCHANGED << kind, added, order, keys, bulk >>

\* the next Decrement(group, bit) of the running Remove
DecrementCall ==
    /\ pending # << >>
    /\ Head(pending).op = "Decrement"
    /\ Outcome(Step(kind, filter, Head(pending)),
               Shadow(realCount, Head(pending).group, Head(pending).bit, 255),
               [ op |-> "Decrement", key |-> last.key,
                 group |-> Head(pending).group, bit |-> Head(pending).bit ])
    /\ pending' = Tail(pending)
    /\ UNCHANGED << kind, added, order, keys, bulk >>

\* the constructor's argument: 32 groups and 25 slots (succinct), 13 buckets
\* and 17 slots (blocked)
ExhaustCapacity(K) == IF K = "succinct" THEN 200 ELSE 666

\* slots of the pool
Slots(K, F) == F.overflowLength \div SlotWordsOf(K)

\* the high half of a blocked hash that selects the bucket and steps the bit
BucketHi(bucket, step) ==
    IF bucket = 0 THEN 8 * step
    ELSE ((bucket * 330382100) \div 512 + 1) * 512 + 8 * step

\* a hash whose k probes all fall into group g, on the bits first, first + step,
\* first + 2 * step, ...
GroupHash(K, g, first, step) ==
    IF K = "succinct"
    THEN [ hi |-> Shl(FromNat(g), 27) \cup FromNat(first), lo |-> FromNat(step) ]
    ELSE [ hi |-> FromNat(BucketHi(g \div 8, step)),
           lo |-> FromNat((g % 8) * (1 + 512 + 262144)
                          + first * 8
                          + ((first + 5 * step) % 64) * 4096
                          + ((first + 6 * step) % 64) * 2097152) ]

\* Add calls per key while the pool is filled: 70 Increments promote a group
FillAdds == 10

\* a key is added or removed this many times at most once the pool is full
MaxFree == 1

\* one key per slot of the pool, and one for the group that finds no slot
FillKeys == 0 .. Slots(kind, filter)

\* a second key of the group that finds no slot, on other bits
Twin == Slots(kind, filter) + 1

FreeKeys == {0, Slots(kind, filter)}

FillHash(K, g) ==
    IF g = Twin THEN GroupHash(K, g - 1, 10, 10) ELSE GroupHash(K, g, 9, 9)

InitExhaust ==
    /\ kind \in Kinds
    /\ \E ub \in ShiftModes : filter = New(kind, ub, ExhaustCapacity(kind))
    /\ realCount = << >>
    /\ pending = << >>
    /\ last = [ op |-> "new" ]
    /\ added = [ g \in FillKeys \cup {Twin} |-> 0 ]
    /\ order = "fill"
    /\ keys = << >>
    /\ bulk = << >>

\* the next Add of the filling order
Fill ==
    /\ order = "fill"
    /\ \E g \in FillKeys :
        /\ added[g] < FillAdds
        /\ \A h \in FillKeys : h < g => added[h] = FillAdds
        /\ BeginAdd(g, FillHash(kind, g))
        /\ order' = IF g = Slots(kind, filter) /\ added[g] = FillAdds - 1
                    THEN "free" ELSE "fill"

\* once the pool is full: the second key of the last group is added
FreeAdd ==
    /\ order = "free"
    /\ added[Twin] < MaxFree
    /\ BeginAdd(Twin, FillHash(kind, Twin))
    /\ order' = order

\* once the pool is full: the first or the last key is removed
FreeRemove ==
    /\ order = "free"
    /\ \E g \in FreeKeys :
        /\ added[g] > FillAdds - MaxFree
        /\ BeginRemove(g, FillHash(kind, g))
        /\ order' = order

NextExhaust ==
    \/ Fill
    \/ FreeAdd
    \/ FreeRemove
    \/ IncrementCall
    \/ DecrementCall

SpecExhaust == InitExhaust /\ [][NextExhaust]_vars

\* ------------------------------------------- SpecBulk: Add against AddAll
\* A vector of keys is built; every key is given to Add of one filter as it is
\* appended, and the whole vector is then handed to AddAll of a second filter
\* constructed with the same argument.  The vector holds each key in one run.

\* the constructor's argument: 2 groups (one radix block), 16385 groups (two)
BulkSizes == {12, 104858}

\* Key X probes k bits of group 0; key Y probes k bits of the last group, which
\* is the one group of the second radix block when there are two.
BulkKeys == {"X", "Y"}

BulkHash(key) ==
    IF key = "X" THEN [ hi |-> FromNat(9), lo |-> FromNat(9) ]
    ELSE [ hi |-> (8 .. 31) \cup FromNat(9), lo |-> FromNat(9) ]

\* the vector never holds more keys than this, and each key at most half of it
MaxKeys == 20

Copies(v, key) == Cardinality({ i \in 1 .. Len(v) : v[i] = key })

RECURSIVE Hashes(_)
Hashes(v) == IF v = << >> THEN << >> ELSE << BulkHash(Head(v)) >> \o Hashes(Tail(v))

InitBulk ==
    /\ kind = "succinct"
    /\ \E ub \in ShiftModes : \E n \in BulkSizes : filter = NewSuccinct(n, ub)
    /\ bulk = filter
    /\ keys = << >>
    /\ realCount = << >>
    /\ pending = << >>
    /\ last = [ op |-> "new" ]
    /\ added = << >>
    /\ order = "adds"

\* keys.push_back(key); Add(key)
BulkAdd ==
    /\ last.op # "AddAll"
    /\ Len(keys) < MaxKeys
    /\ \E key \in BulkKeys :
        /\ Copies(keys, key) < MaxKeys \div 2
        /\ keys # << >> =>
              (key = keys[Len(keys)] \/ \A i \in 1 .. Len(keys) : keys[i] # key)
        /\ keys' = Append(keys, key)
        /\ filter' = Add(filter, BulkHash(key))
        /\ last' = [ op |-> "Add", key |-> key ]
    /\ UNCHANGED << kind, realCount, pending, added, order, bulk >>

\* AddAll(keys, 0, keys.size()) on the second filter, which is still fresh
BulkAddAll ==
    /\ last.op # "AddAll"
    /\ bulk' = AddAll(bulk, Hashes(keys), 0, Len(keys))
    /\ last' = [ op |-> "AddAll" ]
    /\ UNCHANGED << kind, filter, realCount, pending, added, order, keys >>

NextBulk ==
    \/ BulkAdd
    \/ BulkAddAll

SpecBulk == InitBulk /\ [][NextBulk]_vars

\* ---------------------------------------------------- CountingBloomFilter
\* The plain filter: one array of words, each holding sixteen 4-bit counters.

\* the constructor
PlainNew(n) ==
    [ data |-> Zeroed, arrayLength |-> (4 * n * bits_per_item + 63) \div 64 ]

\* (a << 2) & 0x3f, as a number: the lowest bit of the counter a selects
PlainShift(a) == ToNat(Shl(a, 2) \cap (0 .. 5))

RECURSIVE PlainProbesAt(_, _)
\* the (index, shift) pair probed for each value of a
PlainProbesAt(F, as) ==
    IF as = << >> THEN << >>
    ELSE << << reduce(Head(as), F.arrayLength), PlainShift(Head(as)) >> >>
             \o PlainProbesAt(F, Tail(as))

PlainProbes(F, hash) == PlainProbesAt(F, Walk(hash.hi, hash.lo, k))

\* the 4-bit counter at the bits shift .. shift + 3 of a word
Nibble(w, shift) == ToNat(Shr(w, shift) \cap (0 .. 3))

RECURSIVE PlainAddAt(_, _)
\* data[index] += 1ULL << shift, probe after probe
PlainAddAt(F, p) ==
    IF p = << >> THEN F
    ELSE PlainAddAt([F EXCEPT !.data = Store(@, Head(p)[1],
                                             AddBit(Word(F.data, Head(p)[1]), Head(p)[2]))],
                    Tail(p))

RECURSIVE PlainRemoveAtGuarded(_, _)
\* a faulty Remove: a counter that reads 0 is left alone
PlainRemoveAtGuarded(F, p) ==
    IF p = << >> THEN F
    ELSE PlainRemoveAtGuarded(
             IF Nibble(Word(F.data, Head(p)[1]), Head(p)[2]) = 0 THEN F
             ELSE [F EXCEPT !.data = Store(@, Head(p)[1],
                                           SubBit(Word(F.data, Head(p)[1]), Head(p)[2]))],
             Tail(p))

RECURSIVE PlainRemoveAt(_, _)
\* data[index] -= 1ULL << shift, probe after probe
PlainRemoveAt(F, p) ==
    IF p = << >> THEN F
    ELSE PlainRemoveAt([F EXCEPT !.data = Store(@, Head(p)[1],
                                                SubBit(Word(F.data, Head(p)[1]), Head(p)[2]))],
                       Tail(p))

PlainAdd(F, hash) == PlainAddAt(F, PlainProbes(F, hash))

PlainRemove(F, hash) == PlainRemoveAt(F, PlainProbes(F, hash))

\* Contain: Ok exactly when no probed counter is 0
PlainContain(F, hash) ==
    \A i \in 1 .. k :
        LET p == PlainProbes(F, hash)[i] IN Nibble(Word(F.data, p[1]), p[2]) # 0

RECURSIVE PlainEntriesAt(_, _)
\* the entries one key gives to AddAll: (index << 4) + (a & 0xf)
PlainEntriesAt(F, as) ==
    IF as = << >> THEN << >>
    ELSE << reduce(Head(as), F.arrayLength) * 16 + ToNat(Head(as) \cap (0 .. 3)) >>
             \o PlainEntriesAt(F, Tail(as))

RECURSIVE PlainEntries(_, _, _, _)
\* the entries of keys[start] .. keys[end - 1], key after key
PlainEntries(F, hashes, start, end) ==
    IF start >= end THEN << >>
    ELSE PlainEntriesAt(F, Walk(hashes[start + 1].hi, hashes[start + 1].lo, k))
             \o PlainEntries(F, hashes, start + 1, end)

RECURSIVE PlainAddBlockRange(_, _, _, _)
\* the loop of AddBlock over the entries lo .. hi of a block:
\* data[index >> 4] += 1ULL << ((index << 2) & 0x3f)
PlainAddBlockRange(F, entries, lo, hi) ==
    IF lo > hi THEN F
    ELSE PlainAddBlockRange(
             [F EXCEPT !.data = Store(@, entries[lo] \div 16,
                                      AddBit(Word(F.data, entries[lo] \div 16),
                                             4 * (entries[lo] % 16)))],
             entries, lo + 1, hi)

PlainAddBlock(F, tmp, block, len) == PlainAddBlockRange(F, tmp[block], 1, len)

\* one round of the inner loop of AddAll
PlainBuffer(S, entry) ==
    LET block == (entry \div 16) \div blockLen
        len == Len(S.tmp[block])
        tmp == [S.tmp EXCEPT ![block] = Append(@, entry)]
    IN  IF len + 1 = blockLen
        THEN [ F |-> PlainAddBlock(S.F, tmp, block, len + 1),
               tmp |-> [tmp EXCEPT ![block] = << >>] ]
        ELSE [ F |-> S.F, tmp |-> tmp ]

RECURSIVE PlainScatter(_, _, _, _)
\* the rounds lo .. hi of the two nested loops
PlainScatter(S, entries, lo, hi) ==
    IF lo > hi THEN S
    ELSE PlainScatter(PlainBuffer(S, entries[lo]), entries, lo + 1, hi)

RECURSIVE PlainFlush(_, _, _, _)
\* the last loop: every block, in ascending order, is added
PlainFlush(F, tmp, block, blocks) ==
    IF block >= blocks THEN F
    ELSE PlainFlush(PlainAddBlock(F, tmp, block, Len(tmp[block])), tmp, block + 1, blocks)

PlainAddAll(F, hashes, start, end) ==
    LET entries == PlainEntries(F, hashes, start, end)
        S == PlainScatter([ F |-> F, tmp |-> [ block \in 0 .. Blocks(F) - 1 |-> << >> ] ],
                          entries, 1, Len(entries))
    IN  PlainFlush(S.F, S.tmp, 0, Blocks(F))

\* ------------------------------------------- SpecPlain: the plain filter
\* Keys are added (one by one, or two at a time through AddAll) and removed.

\* the constructor's argument: 2 words
PlainCapacity == 3

\* Key P probes counter 3 of word 0 k times; key Q probes the counters 1 .. k
\* of word 0; key R probes counter 15 of word 1 k times.
PlainKeys == {"P", "Q", "R"}

PlainHash(key) ==
    CASE key = "P" -> [ hi |-> FromNat(3), lo |-> {} ]
      [] key = "Q" -> [ hi |-> FromNat(1), lo |-> FromNat(1) ]
      [] key = "R" -> [ hi |-> Top32(15), lo |-> {} ]

\* the multiset never holds more keys than this
MaxPlain == 6

PlainCalls(F, key, op) == CallsAt(PlainProbes(F, PlainHash(key)), op)

InitPlain ==
    /\ kind = "plain"
    /\ filter = PlainNew(PlainCapacity)
    /\ realCount = [ p \in { PlainProbes(filter, PlainHash(key))[i] :
                             key \in PlainKeys, i \in 1 .. k } |-> 0 ]
    /\ pending = << >>
    /\ last = [ op |-> "new" ]
    /\ added = [ key \in PlainKeys |-> 0 ]
    /\ order = "adds"
    /\ keys = << >>
    /\ bulk = << >>

\* Add(key)
PlainDoAdd ==
    \E key \in PlainKeys :
        /\ Total(added, PlainKeys) < MaxPlain
        /\ filter' = PlainAdd(filter, PlainHash(key))
        /\ realCount' = ShadowAll(realCount, PlainCalls(filter, key, "Increment"), 1)
        /\ added' = [added EXCEPT ![key] = @ + 1]
        /\ last' = [ op |-> "Add", key |-> key ]
        /\ UNCHANGED << kind, pending, order, keys, bulk >>

\* AddAll(<< first, second >>, 0, 2)
PlainDoAddAll ==
    \E first \in PlainKeys, second \in PlainKeys :
        /\ Total(added, PlainKeys) + 2 <= MaxPlain
        /\ filter' = PlainAddAll(filter, << PlainHash(first), PlainHash(second) >>, 0, 2)
        /\ realCount' = ShadowAll(realCount,
                                  PlainCalls(filter, first, "Increment")
                                      \o PlainCalls(filter, second, "Increment"), 1)
        /\ added' = [ key \in PlainKeys |->
                        added[key] + (IF key = first THEN 1 ELSE 0)
                                   + (IF key = second THEN 1 ELSE 0) ]
        /\ last' = [ op |-> "AddAll", key |-> first, second |-> second ]
        /\ UNCHANGED << kind, pending, order, keys, bulk >>

\* Remove(key) of a key that is in the multiset
PlainDoRemove ==
    \E key \in PlainKeys :
        /\ added[key] > 0
        /\ filter' = PlainRemove(filter, PlainHash(key))
        /\ realCount' = ShadowAll(realCount, PlainCalls(filter, key, "Decrement"), 255)
        /\ added' = [added EXCEPT ![key] = @ - 1]
        /\ last' = [ op |-> "Remove", key |-> key ]
        /\ order' = "removes"
        /\ UNCHANGED << kind, pending, keys, bulk >>

NextPlain ==
    \/ PlainDoAdd
    \/ PlainDoAddAll
    \/ PlainDoRemove

SpecPlain == InitPlain /\ [][NextPlain]_vars

\* the group is promoted: the top bit of its counts word is set
Promoted(F, g) == 63 \in Word(F.counts, g)

\* ------------------------------------- SpecGroup: the calls on one group
\* Increment and Decrement are called on the bits of group 0 of a fresh filter:
\* the bits are taken one after the other, from bit 0 up or from bit 63 down,
\* and one bit (the hot bit) is incremented again and again once MinTaken
\* other bits are taken.  A Decrement is made on a position whose count is
\* greater than 0 only, and only near the promotion threshold (while the
\* counts of the group add up to more than MinMass).  In this
\* specification added.run counts the calls made so far, as long as all of them
\* were Increments and all but the last hit a bit for the first time (it is -1
\* afterwards), and added.decrements counts the Decrement calls.

\* the group the calls are made on
TheGroup == 0

\* the count of the hot bit never passes this
MaxHot == 17

\* the counts of the group never add up to more than this
MaxMass == 65

\* the orders the bits are taken in, with the hot bit of each
Orders == { [ dir |-> "up", hot |-> 0 ], [ dir |-> "down", hot |-> 63 ] }

\* this many bits are taken before the hot bit is incremented
MinTaken == 46

\* a Decrement is made when the counts of the group add up to more than this
MinMass == 60

\* Decrement is called this many times at most
MaxDecrements == 4

\* the true count of a position of the group
CountOf(bit) == realCount[<< TheGroup, bit >>]

RECURSIVE SumTo(_, _)
SumTo(f, n) == IF n < 0 THEN 0 ELSE f[<< TheGroup, n >>] + SumTo(f, n - 1)

\* the sum of the true counts of the group
Mass == SumTo(realCount, 63)

Absent == { b \in W64 : CountOf(b) = 0 }

\* no position was incremented twice
Distinct == \A b \in W64 : CountOf(b) <= 1

Taken == { b \in W64 \ {order.hot} : CountOf(b) > 0 }

\* the next bit of the order, and the bit taken last
FreshBit == IF order.dir = "up" THEN CHOOSE b \in Absent : \A c \in Absent : b <= c
            ELSE CHOOSE b \in Absent : \A c \in Absent : c <= b

TakenLast == IF order.dir = "up" THEN CHOOSE b \in Taken : \A c \in Taken : c <= b
             ELSE CHOOSE b \in Taken : \A c \in Taken : b <= c

InitGroup ==
    /\ kind \in Kinds
    /\ \E ub \in ShiftModes : filter = New(kind, ub, Capacity(kind))
    /\ realCount = [ p \in { << TheGroup, b >> : b \in W64 } |-> 0 ]
    /\ pending = << >>
    /\ last = [ op |-> "new" ]
    /\ added = [ run |-> 0, decrements |-> 0 ]
    /\ order \in Orders
    /\ keys = << >>
    /\ bulk = << >>

\* Increment(TheGroup, bit); last keeps the object the call was made on
IncrementOn(bit) ==
    /\ last.op # "undefined"
    /\ Mass < MaxMass
    /\ Outcome(Step(kind, filter, [ op |-> "Increment", group |-> TheGroup, bit |-> bit ]),
               Shadow(realCount, TheGroup, bit, 1),
               [ op |-> "Increment", group |-> TheGroup, bit |-> bit, before |-> filter ])
    /\ added' = [added EXCEPT !.run = IF @ >= 0 /\ Distinct THEN @ + 1 ELSE -1]
    /\ UNCHANGED << kind, pending, order, keys, bulk >>

\* Decrement(TheGroup, bit)
DecrementOn(bit) ==
    /\ last.op # "undefined"
    /\ Mass > MinMass
    /\ added.decrements < MaxDecrements
    /\ CountOf(bit) > 0
    /\ Outcome(Step(kind, filter, [ op |-> "Decrement", group |-> TheGroup, bit |-> bit ]),
               Shadow(realCount, TheGroup, bit, 255),
               [ op |-> "Decrement", group |-> TheGroup, bit |-> bit, before |-> filter ])
    /\ added' = [ run |-> -1, decrements |-> added.decrements + 1 ]
    /\ UNCHANGED << kind, pending, order, keys, bulk >>

IncrementFresh == Absent # {} /\ IncrementOn(FreshBit)

IncrementHot ==
    /\ Cardinality(Taken) >= MinTaken
    /\ CountOf(order.hot) < MaxHot
    /\ IncrementOn(order.hot)

DecrementTaken == Taken # {} /\ DecrementOn(TakenLast)

DecrementHot == DecrementOn(order.hot)

NextGroup ==
    \/ IncrementFresh
    \/ IncrementHot
    \/ DecrementTaken
    \/ DecrementHot

SpecGroup == InitGroup /\ [][NextGroup]_vars

\* ------------------------------ SpecPool: the groups are promoted one by one

\* the constructor's argument.  Succinct: 26 groups and overflowLength 100.
\* Blocked: 2 buckets (16 groups) and overflowLength 100, or 13 buckets
\* (104 groups) and overflowLength 136.
PoolCapacities(K) == IF K = "succinct" THEN {166} ELSE {103, 666}

\* Decrement calls in one behaviour
MaxUndo == 2

\* the groups the calls go through: one more than the pool has whole slots
PoolGroups(K, F) == F.overflowLength \div SlotWordsOf(K) + 1

\* call number n is on bit n % 64 of group n / 64
InitPool ==
    /\ kind \in Kinds
    /\ \E ub \in ShiftModes, n \in PoolCapacities(kind) : filter = New(kind, ub, n)
    /\ realCount = << >>
    /\ pending = << >>
    /\ last = [ op |-> "new" ]
    /\ added = [ calls |-> 0, undone |-> 0 ]
    /\ order = "pool"
    /\ keys = << >>
    /\ bulk = << >>

\* the next Increment
PoolIncrement ==
    /\ last.op # "undefined"
    /\ added.calls < 64 * PoolGroups(kind, filter)
    /\ LET call == [ op |-> "Increment", group |-> added.calls \div 64,
                      bit |-> added.calls % 64 ]
       IN  Outcome(Step(kind, filter, call), realCount,
                   [ op |-> "Increment", group |-> call.group, bit |-> call.bit,
                     before |-> filter ])
    /\ added' = [added EXCEPT !.calls = @ + 1]
    /\ UNCHANGED << kind, pending, order, keys, bulk >>

\* the Decrement that takes the last Increment back
PoolDecrement ==
    /\ last.op # "undefined"
    /\ added.calls > 0
    /\ added.undone < MaxUndo
    /\ (added.calls - 1) % 64 \in Word(filter.data, (added.calls - 1) \div 64)
    /\ LET call == [ op |-> "Decrement", group |-> (added.calls - 1) \div 64,
                      bit |-> (added.calls - 1) % 64 ]
       IN  Outcome(Step(kind, filter, call), realCount,
                   [ op |-> "Decrement", group |-> call.group, bit |-> call.bit,
                     before |-> filter ])
    /\ added' = [ calls |-> added.calls - 1, undone |-> added.undone + 1 ]
    /\ UNCHANGED << kind, pending, order, keys, bulk >>

NextPool ==
    \/ PoolIncrement
    \/ PoolDecrement

SpecPool == InitPool /\ [][NextPool]_vars

\* ------------------------------ SpecHot: one position is counted many times
\* The bits of group 0 are taken one after the other until order.taken of them
\* are present, and from then on the hot bit is incremented.  While the group
\* is promoted and its counts add up to 64 or less, the bit taken last may be
\* decremented, HotDecrements times in all; after that the next bit of the
\* order is incremented once more.  added.fresh counts these late Increments.

\* the counts of the group never add up to more than this
MaxHotMass == 90

\* Decrement is called this many times at most
HotDecrements == 2

\* the orders, with the number of bits taken before the hot bit is incremented
HotOrders == { [ dir |-> o.dir, hot |-> o.hot, taken |-> n ] : o \in Orders, n \in {32, 48} }

InitHot ==
    /\ kind \in Kinds
    /\ \E ub \in ShiftModes : filter = New(kind, ub, Capacity(kind))
    /\ realCount = [ p \in { << TheGroup, b >> : b \in W64 } |-> 0 ]
    /\ pending = << >>
    /\ last = [ op |-> "new" ]
    /\ added = [ fresh |-> 0, decrements |-> 0 ]
    /\ order \in HotOrders
    /\ keys = << >>
    /\ bulk = << >>

\* Increment(TheGroup, bit) or Decrement(TheGroup, bit)
HotCall(op, bit) ==
    /\ last.op # "undefined"
    /\ Outcome(Step(kind, filter, [ op |-> op, group |-> TheGroup, bit |-> bit ]),
               Shadow(realCount, TheGroup, bit, IF op = "Increment" THEN 1 ELSE 255),
               [ op |-> op, group |-> TheGroup, bit |-> bit, before |-> filter ])
    /\ UNCHANGED << kind, pending, order, keys, bulk >>

\* the next bit of the order is taken
HotFresh ==
    /\ added.decrements = 0
    /\ CountOf(order.hot) <= 1
    /\ Cardinality(Taken) < order.taken
    /\ HotCall("Increment", FreshBit)
    /\ UNCHANGED added

\* the hot bit is incremented
HotPump ==
    /\ Cardinality(Taken) + added.decrements >= order.taken
    /\ Mass < MaxHotMass
    /\ HotCall("Increment", order.hot)
    /\ UNCHANGED added

\* the bit taken last is decremented
HotDecrement ==
    /\ added.decrements < HotDecrements
    /\ Promoted(filter, TheGroup)
    /\ Mass <= 64
    /\ Taken # {}
    /\ HotCall("Decrement", TakenLast)
    /\ added' = [added EXCEPT !.decrements = @ + 1]

\* after the Decrements, the next bit of the order is incremented
HotLate ==
    /\ added.decrements = HotDecrements
    /\ added.fresh = 0
    /\ Mass < MaxHotMass
    /\ Absent # {}
    /\ HotCall("Increment", FreshBit)
    /\ added' = [added EXCEPT !.fresh = 1]

NextHot ==
    \/ HotFresh
    \/ HotPump
    \/ HotDecrement
    \/ HotLate

SpecHot == InitHot /\ [][NextHot]_vars

\* -------------------------------------------------------------- claims

Groups == 0 .. filter.arrayLength - 1

Defined == last.op # "undefined"

\* C1: no false negatives.  In every state reached by Add and Remove calls in
\* which each Remove(key) matches an earlier Add(key) not yet removed,
\* Contain(key) is Ok for every key whose multiplicity is at least 1.
C1_NoFalseNegatives ==
    Defined =>
        \A key \in Keys :
            added[key] >= 1 => Has(kind, filter, KeyHash(kind, key))

\* C2: the presence plane.  For every group g and bit i, bit i of data[g] is 1
\* if and only if the count of the position (its Increments minus its
\* Decrements) is greater than 0.
C2_PresencePlane ==
    Defined =>
        \A g \in Groups : \A i \in W64 :
            (i \in Word(filter.data, g)) <=> (RealCount(g, i) > 0)

\* C3: ReadCount agrees with the shadow counter.  After every operation,
\* ReadCount(g, b) = realCount[g * 64 + b] for all 64 bits b of every group.
C3_ReadCountIsRealCount ==
    Defined =>
        \A g \in Groups : \A b \in W64 :
            Read(kind, filter, g, b) = RealCount(g, b)

\* every key of the multiset has been removed again
AllRemoved == Defined /\ order = "removes" /\ Size = 0

\* C5: return to empty.  After Add for each element of a multiset and then
\* Remove once for each element, in any order, every word of data is 0, every
\* word of counts is 0 and the free list contains every slot of the pool.
C5_ReturnToEmpty ==
    AllRemoved =>
        /\ \A g \in Groups : Word(filter.data, g) = {} /\ Word(filter.counts, g) = {}
        /\ FreeList(filter) = PoolSlots(kind, filter)

\* the Increments the multiset built gave to group g
IncrementsOn(g) ==
    LET on(key) == Cardinality({ i \in 1 .. k :
                       ProbesOf(kind, filter, KeyHash(kind, key))[i][1] = g })
    IN  on("A") * keys["A"] + on("B") * keys["B"] + on("C") * keys["C"]

\* C6: promotion round trip.  Increments long enough to promote a group (64 of
\* them, on one bit or on several), followed by the matching Decrements, leave
\* data[g] = 0 and counts[g] = 0 and the slot the group used (slot 0, the head
\* of the fresh free list) back on the free list.
C6_PromotionRoundTrip ==
    AllRemoved =>
        \A g \in Groups :
            IncrementsOn(g) >= 64 =>
                /\ Word(filter.data, g) = {}
                /\ Word(filter.counts, g) = {}
                /\ 0 \in FreeList(filter)

\* the key of the running or the last Add or Remove, in SpecExhaust
LastHash == FillHash(kind, last.key)

\* an Add has just returned
AddReturned == Defined /\ pending = << >> /\ last.op = "Increment"

\* C4: immediately after Add(key) returns, Contain(key) is Ok, in every
\* reachable state, the states with an exhausted pool included.
C4_AddThenContain == AddReturned => Has(kind, filter, LastHash)

\* C4 happens: an Add whose last Increment found the pool exhausted returned
C4_Witness ==
    AddReturned /\ last.exhausted /\ last.key = Twin /\ Has(kind, filter, LastHash)

\* the Increment at the head of pending finds the pool exhausted
ExhaustedCall ==
    /\ IncrementCall
    /\ Exhausted(filter, Head(pending).group)

\* C9: pool exhaustion is a soft failure.  An Increment(g, bit) that must promote
\* g and finds nextFreeOverflow >= overflowLength sets bit `bit` of data[g] and
\* changes nothing else: counts, overflow and nextFreeOverflow stay; the Add it
\* belongs to returns and Contain of its key is Ok.
C9_SoftFailure ==
    [][ ExhaustedCall =>
          /\ last'.op = "Increment"
          /\ filter' = [filter EXCEPT !.data =
                            Store(@, Head(pending).group,
                                  Word(@, Head(pending).group) \cup {Head(pending).bit})]
          /\ pending' = << >> => Has(kind, filter', LastHash) ]_vars

\* C9 happens: an Increment found the pool exhausted and set a bit that was 0
C9_Witness ==
    /\ last.op = "Increment"
    /\ last.exhausted
    /\ last.key = Twin
    /\ added[Twin] = 1
    /\ last.bit \in Word(filter.data, last.group)
    /\ filter.nextFreeOverflow >= filter.overflowLength

\* the groups of the bucket of a blocked hash
Bucket(F, hash) ==
    LET bucket_start == reduce(hash.hi, F.bucketCount) * 8
    IN  bucket_start .. bucket_start + 7

\* C10: blocked locality.  Every Increment of a blocked Add(key) and every
\* Decrement of a blocked Remove(key) targets a group of the one bucket of the
\* key, the data and counts words of all other buckets are unchanged, and
\* Contain(key) reads data only inside that bucket.
C10_BlockedLocality ==
    [][ (kind = "blocked" /\ (IncrementCall \/ DecrementCall)) =>
          /\ Head(pending).group \in Bucket(filter, LastHash)
          /\ \A g \in Groups \ Bucket(filter, LastHash) :
                /\ Word(filter'.data, g) = Word(filter.data, g)
                /\ Word(filter'.counts, g) = Word(filter.counts, g)
          /\ \A i \in 1 .. k :
                BlockedProbes(filter, LastHash)[i][1] \in Bucket(filter, LastHash)
      ]_vars

\* C10 happens: a Decrement of a blocked Remove acted on the third bucket
C10_Witness ==
    /\ kind = "blocked"
    /\ last.op = "Decrement"
    /\ last.group \in 16 .. 23

\* AddAll has returned
BulkDone == last.op = "AddAll" /\ IsDefined(filter) /\ IsDefined(bulk)

\* the groups the keys of the vector probe
Touched ==
    { Probes(filter, BulkHash(key))[i][1] : key \in BulkKeys, i \in 1 .. k }

OfGroup(entries, g) == SelectSeq(entries, LAMBDA e : e \div 64 = g)

\* the entries in the order AddAll hands them to Increment: block after block
RECURSIVE InBlockOrder(_, _, _)
InBlockOrder(tmp, block, blocks) ==
    IF block >= blocks THEN << >>
    ELSE tmp[block] \o InBlockOrder(tmp, block + 1, blocks)

\* every group finds its entries in tmp in the order the Add calls give them
GroupOrderKept(tmp, all) ==
    \A g \in Touched :
        OfGroup(InBlockOrder(tmp, 0, Blocks(filter)), g) = OfGroup(all, g)

\* the two nested loops of AddAll added no block and kept the order
ScatterKeeps(S, all) == S.F = filter /\ GroupOrderKept(S.tmp, all)

\* C8: bulk parity of the presence plane.  The data array after AddAll equals
\* word for word the data array after the Add calls; every group receives the
\* same Increments in the same relative order, and every block is added once,
\* at the end.
C8_BulkParity ==
    BulkDone =>
        /\ bulk.data = filter.data
        /\ ScatterKeeps(Scattered(filter, Hashes(keys), 0, Len(keys)),
                        Entries(filter, Hashes(keys), 0, Len(keys)))

\* C8 happens: a vector that promotes the groups of both radix blocks, the
\* second block's first, gave the same data by AddAll as by Add
C8_Witness ==
    /\ BulkDone
    /\ Blocks(filter) = 2
    /\ Len(keys) = MaxKeys
    /\ keys[1] = "Y"
    /\ keys[MaxKeys] = "X"
    /\ bulk.data = filter.data
    /\ \E g \in Touched : Word(bulk.data, g) # {}

\* C11: saturation of the plain filter.  A 4-bit counter that is incremented at
\* 15 stays at 15 and its neighbours keep their values: as long as keys are
\* only added, every counter holds the number of increments made on it, or 15
\* when that number is larger.
C11_Saturation ==
    (kind = "plain" /\ order = "adds") =>
        \A p \in DOMAIN realCount :
            Nibble(Word(filter.data, p[1]), p[2])
                = (IF realCount[p] > 15 THEN 15 ELSE realCount[p])

HeaderTotal(F, g) == ToNat(Shr(Word(F.counts, g), 32) \cap (0 .. 27))

HeaderIndex(F, g) == ToNat(Word(F.counts, g) \cap (0 .. 27))

\* the last call was an Increment that took the branch "convert to an overflow
\* entry" and found a free slot
Promoting ==
    /\ last.op = "Increment"
    /\ Word(last.before.counts, last.group) \cap {62, 63} = {62}
    /\ last.before.nextFreeOverflow < last.before.overflowLength

\* the last call was a Decrement on the group while it was promoted
PromotedDecrement == last.op = "Decrement" /\ Promoted(last.before, last.group)

\* the last call gave the slot of its group back to the free list
Demoted ==
    /\ filter.nextFreeOverflow = HeaderIndex(last.before, last.group)
    /\ filter.overflow[filter.nextFreeOverflow] = FromNat(last.before.nextFreeOverflow)

\* the last call left its group promoted, in the same slot
StillPromoted ==
    /\ Promoted(filter, last.group)
    /\ HeaderIndex(filter, last.group) = HeaderIndex(last.before, last.group)
    /\ filter.nextFreeOverflow = last.before.nextFreeOverflow

\* C13 as stated: the header total is 64 right after promotion, a Decrement on a
\* promoted group demotes it exactly when the total after the Decrement is less
\* than 64, and no group stays promoted with a total less than 64.
C13_DemotesBelow64 ==
    /\ Promoting => (Promoted(filter, last.group) /\ HeaderTotal(filter, last.group) = 64)
    /\ PromotedDecrement =>
           /\ Demoted <=> HeaderTotal(last.before, last.group) - 1 < 64
           /\ Promoted(filter, last.group) => HeaderTotal(filter, last.group) >= 64

\* C13, amended: the header total is 64 right after promotion; a Decrement on a
\* promoted group demotes it exactly when the total before that Decrement is less
\* than 64 (the total after it is less than 63); otherwise the group stays
\* promoted in its slot with the total one less, which is 63 at least.
C13_DemotesBelow63 ==
    /\ Promoting => (Promoted(filter, last.group) /\ HeaderTotal(filter, last.group) = 64)
    /\ PromotedDecrement =>
           /\ Demoted <=> HeaderTotal(last.before, last.group) < 64
           /\ ~Demoted <=> StillPromoted
           /\ StillPromoted =>
                  /\ HeaderTotal(filter, last.group) = HeaderTotal(last.before, last.group) - 1
                  /\ HeaderTotal(filter, last.group) >= 63

\* a promoted group with the total 63 was demoted by a Decrement
C13_Witness ==
    /\ PromotedDecrement
    /\ HeaderTotal(last.before, last.group) = 63
    /\ Demoted
    /\ ~Promoted(filter, last.group)

\* the slots met by following overflow[] from head, in the order they are met,
\* for n links at most; the walk ends at an index at or past overflowLength
RECURSIVE Links(_, _, _)
Links(F, head, n) ==
    IF n = 0 \/ head >= F.overflowLength THEN << >>
    ELSE << head >> \o (IF F.overflow[head] \subseteq 0 .. 30
                        THEN Links(F, ToNat(F.overflow[head]), n - 1)
                        ELSE << -1 >>)

\* the walk over the free list, cut after one link more than the pool has slots
FreeLinks(F) == Links(F, F.nextFreeOverflow, Cardinality(PoolSlots(kind, F)) + 1)

\* the slots named by the headers of the promoted groups
OwnedSlots(F) == { HeaderIndex(F, g) : g \in { h \in DOMAIN F.counts : Promoted(F, h) } }

\* C14: the free list.  Following the links from nextFreeOverflow until an index
\* at or past overflowLength visits every slot that no promoted header names
\* exactly once, and no slot that a promoted header names.
C14_FreeList ==
    LET walk == FreeLinks(filter)
    IN  /\ \A i, j \in 1 .. Len(walk) : walk[i] = walk[j] => i = j
        /\ { walk[i] : i \in 1 .. Len(walk) }
               = PoolSlots(kind, filter) \ OwnedSlots(filter)

\* C15: the inline encoding.  Every group whose counts word has bit 63 clear has
\* as many set bits in counts as in data, the highest set bit of the counts word
\* at position (sum of the counts of the group) - 1, and a counts word of 0
\* exactly when its data word is 0.
C15_InlineEncoding ==
    LET m == Word(filter.data, TheGroup)
        c == Word(filter.counts, TheGroup)
    IN  ~Promoted(filter, TheGroup) =>
            /\ bitCount64(c) = bitCount64(m)
            /\ c # {} => 63 - numberOfLeadingZeros64(c) = Mass - 1
            /\ c = {} <=> m = {}


\* the width of a lane and the number of lanes in a word of a slot
LaneWidth(K) == IF K = "succinct" THEN 4 ELSE 8

LanesPerWord(K) == 64 \div LaneWidth(K)

\* lane i of the slot at index
SlotLane(K, F, index, i) ==
    ToNat(Shr(F.overflow[index + i \div LanesPerWord(K)],
              LaneWidth(K) * (i % LanesPerWord(K))) \cap (0 .. LaneWidth(K) - 1))

\* the last call was the Increment that promoted its group
Promotes == last.op = "Increment" /\ ~Promoted(last.before, last.group)
                /\ Promoting /\ Promoted(filter, last.group)

\* the count of position i of the group of the last call, read from the inline
\* form the group had before the call
InlineCount(i) ==
    IF kind = "succinct" THEN ReadCount(last.before, last.group, i)
    ELSE BlockedReadCount(last.before, last.group, i)

\* C16: promotion preserves every counter.  After the Increment(g, bit) that
\* promotes g, lane i of the slot of g holds the count position i had in the
\* inline form, plus one for i = bit, for every i in 0 .. 63.
C16_PromotionPreserves ==
    Promotes =>
        \A i \in W64 :
            SlotLane(kind, filter, HeaderIndex(filter, last.group), i)
                = InlineCount(i) + (IF i = last.bit THEN 1 ELSE 0)


\* the last call was a Decrement that rebuilt the inline word of its group
Demotes == PromotedDecrement /\ HeaderTotal(last.before, last.group) < 64

\* the lanes of the slot when the rebuild loop of the last call ran: those of
\* the state before the call, less one in the lane of the call's bit
LanesAtRebuild ==
    LET F == last.before
        index == HeaderIndex(F, last.group)
        w == index + last.bit \div LanesPerWord(kind)
        F1 == [F EXCEPT !.overflow[w] =
                  Sub64(@, ShlUB(F.ub, {0}, last.bit * LaneWidth(kind)))]
    IN  [ i \in W64 |-> SlotLane(kind, F1, index, i) ]

RECURSIVE LaneSum(_, _)
LaneSum(lanes, i) == IF i < 0 THEN 0 ELSE lanes[i] + LaneSum(lanes, i - 1)

\* the inline word of the lanes: for every nonzero lane, taken from lane 0
\* up, (lane - 1) zeros and a one
Encoded(lanes) == { LaneSum(lanes, i) - 1 : i \in { j \in W64 : lanes[j] > 0 } }

\* C17: the shifts of the rebuild.  When a Decrement rebuilds the inline word,
\* every nonzero lane is at most 64, the lanes sum to at most 62, and the
\* rebuilt counts word has bits 62 and 63 clear and is the encoding of the
\* lanes.
C17_RebuildDefined ==
    Demotes =>
        LET lanes == LanesAtRebuild
        IN  /\ \A i \in W64 : lanes[i] > 0 => lanes[i] - 1 < 64
            /\ LaneSum(lanes, 63) <= 62
            /\ Word(filter.counts, last.group) \cap {62, 63} = {}
            /\ Word(filter.counts, last.group) = Encoded(lanes)

\* the lane of the bit of the last call, in the slot its group had before the
\* call
OldLane == SlotLane(kind, last.before, HeaderIndex(last.before, last.group), last.bit)

\* C18: the blocked filter's Decrement(g, bit) on a promoted group clears bit
\* `bit` of data[g] exactly when the 8-bit lane of the bit held 1 before the
\* call.
C18_BlockedClearsAtOne ==
    (kind = "blocked" /\ PromotedDecrement
         /\ last.bit \in Word(last.before.data, last.group)) =>
        (last.bit \notin Word(filter.data, last.group) <=> OldLane = 1)


\* a Decrement of the blocked filter on a promoted group cleared a bit whose
\* low nibble is 8 or more: its lane held 1
C18_Witness ==
    /\ kind = "blocked"
    /\ PromotedDecrement
    /\ last.bit % 16 >= 8
    /\ OldLane = 1
    /\ last.bit \in Word(last.before.data, last.group)
    /\ last.bit \notin Word(filter.data, last.group)


\* the calls select64(x, n) of Increment(group, bit) or Decrement(group, bit)
\* on F, as pairs << x, n >>: the one of the inline splice, or those of the
\* ReadCount calls of the loop that fills a new slot
SelectCalls(F, group, bit, op) ==
    LET m == Word(F.data, group)
        c == Word(F.counts, group)
    IN  IF 63 \in c THEN {}
        ELSE IF op = "Increment" /\ 62 \in c
        THEN IF F.nextFreeOverflow >= F.overflowLength THEN {}
             ELSE { << c, bitCount64(m \cap LowMask(i)) - 1 >> : i \in m }
        ELSE { << Shl(c, 1) \cup {0}, bitCount64(m \cap LowMask(bit)) >> }

\* the calls of select64 made by the last call
LastSelectCalls ==
    IF last.op \in {"Increment", "Decrement"}
    THEN SelectCalls(last.before, last.group, last.bit, last.op)
    ELSE {}

\* the last call took the inline splice
Spliced ==
    /\ last.op \in {"Increment", "Decrement"}
    /\ 63 \notin Word(last.before.counts, last.group)
    /\ last.op = "Increment" => 62 \notin Word(last.before.counts, last.group)

\* the true count of position i before the last call
CountBefore(i) ==
    CountOf(i) - (IF i # last.bit THEN 0 ELSE IF last.op = "Increment" THEN 1 ELSE -1)

RECURSIVE MassBelow(_)
MassBelow(i) == IF i < 0 THEN 0 ELSE CountBefore(i) + MassBelow(i - 1)

\* C19: the precondition of select64.  Every call select64(x, n) of an
\* Increment or a Decrement, the calls of ReadCount included, has at least
\* n + 1 set bits in x, so its result is a bit position; for bit 0 and bit 63
\* the call of the inline splice returns the position one past the terminator
\* of the last counter at or below the bit, 0 when there is none.
C19_SelectDefined ==
    /\ \A call \in LastSelectCalls :
           /\ call[2] >= 0
           /\ bitCount64(call[1]) >= call[2] + 1
           /\ select64(call[1], call[2]) \in W64
    /\ (Spliced /\ last.bit \in {0, 63}) =>
           \A call \in LastSelectCalls :
               select64(call[1], call[2]) = MassBelow(last.bit)


\* C20: the slots stay inside the pool.  The slot at the head of the free list,
\* which is the one the next promoting Increment takes, ends at or before
\* overflowLength, and no call indexes overflow[] at or past overflowLength.
C20_SlotsInsidePool ==
    /\ Defined
    /\ filter.nextFreeOverflow < filter.overflowLength =>
           filter.nextFreeOverflow + SlotWordsOf(kind) <= filter.overflowLength


\* C21: the header of a promoted group.  Its total_count field is the sum of the
\* true counts of the 64 positions of the group, and an Increment or a
\* Decrement that finds the group promoted and leaves it promoted keeps the
\* slot index of the header.
C21_HeaderTotal ==
    /\ Promoted(filter, TheGroup) => HeaderTotal(filter, TheGroup) = Mass
    /\ (last.op \in {"Increment", "Decrement"}
            /\ Promoted(last.before, TheGroup) /\ Promoted(filter, TheGroup)) =>
           HeaderIndex(filter, TheGroup) = HeaderIndex(last.before, TheGroup)


\* the groups whose counts word has the top bit set
PromotedGroups(F) == { g \in DOMAIN F.counts : Promoted(F, g) }

\* the slots of the pool that the walk over the free list does not visit
AllocatedSlots(F) ==
    PoolSlots(kind, F) \ { FreeLinks(F)[i] : i \in 1 .. Len(FreeLinks(F)) }

\* C22: the promoted flag.  The top bit of counts[g] is set exactly when g owns
\* an allocated slot: the header of every promoted group names a slot of the
\* pool that is not on the free list, no two promoted groups name the same
\* slot, and every allocated slot is named by a promoted group.  The true
\* counts of an inline group add up to 63 at most.
C22_FlagMatchesSlot ==
    /\ \A g \in PromotedGroups(filter) :
           HeaderIndex(filter, g) \in AllocatedSlots(filter)
    /\ \A g, h \in PromotedGroups(filter) :
           HeaderIndex(filter, g) = HeaderIndex(filter, h) => g = h
    /\ Cardinality(PromotedGroups(filter)) = Cardinality(AllocatedSlots(filter))
    /\ ~Promoted(filter, TheGroup) => Mass <= 63


\* C23: the round trip of the plain filter.  In every state, Add(key) followed
\* by Remove(key) gives back every word of data, also when a counter has passed
\* 15; and when every key that was added has been removed, in whatever order,
\* data is what the constructor left.
C23_PlainRoundTrip ==
    kind = "plain" =>
        /\ \A key \in PlainKeys :
               PlainRemove(PlainAdd(filter, PlainHash(key)), PlainHash(key)).data
                   = filter.data
        /\ (\A key \in PlainKeys : added[key] = 0) => filter.data = Zeroed

\* a Remove acted while a counter was past 15: the counter holds the number of
\* its increments modulo 16
C23_Witness ==
    /\ kind = "plain"
    /\ last.op = "Remove"
    /\ \E p \in DOMAIN realCount :
           /\ realCount[p] > 15
           /\ Nibble(Word(filter.data, p[1]), p[2]) = realCount[p] % 16

=============================================================================
